---- MODULE Spec2Model ----
(***************************************************************************)
(* quicknote (ornekler/2-python.py): the note store and its operations.    *)
(*                                                                         *)
(* A note is a record; the store is one JSON file, replaced through a      *)
(* temporary file.  The file system is modelled with inodes, so that a     *)
(* rename moves the file a writer still holds open.                        *)
(***************************************************************************)
EXTENDS Integers, Sequences, FiniteSets, TLC

\* ------------------------------------------------------------------ bounds
MaxNotes == 2      \* add_note is not called on a collection of this length
MaxTime == 1       \* the clock (seconds) runs from 0 to MaxTime
NumInodes == 3     \* files the file system can hold at once

VARIABLES
    fs,       \* the file system: the two paths and the content of each inode
    now,      \* the wall clock, in seconds
    last,     \* the last call run to completion: operation, arguments, result
    before,   \* the collection load_notes gave at the start of that call
    pc,       \* per process: where it stands in its call
    notes,    \* per process: the list it is about to save
    fd,       \* per process: the inode its open temporary file refers to
    off,      \* per process: the offset of that open file
    call,     \* per process: the call, its arguments and its result
    loaded,   \* per process: the collection its load_notes gave
    reader    \* a process that runs load_notes only

vars == <<fs, now, last, before, pc, notes, fd, off, call, loaded, reader>>

\* ------------------------------------------------------------------ strings
\* A string is a sequence of characters.
Ord(c) ==
    CASE c = " " -> 32 [] c = "(" -> 40 [] c = "A" -> 65 [] c = "B" -> 66
      [] c = "a" -> 97 [] c = "b" -> 98

Lower(c) == CASE c = "A" -> "a" [] c = "B" -> "b" [] OTHER -> c

\* str.strip(): leading and trailing whitespace removed.
RECURSIVE LStrip(_)
LStrip(s) == IF s # <<>> /\ Head(s) = " " THEN LStrip(Tail(s)) ELSE s

RECURSIVE RStrip(_)
RStrip(s) ==
    IF s # <<>> /\ s[Len(s)] = " " THEN RStrip(SubSeq(s, 1, Len(s) - 1)) ELSE s

Strip(s) == RStrip(LStrip(s))

\* s < t as Python compares two strings.
RECURSIVE StrLess(_, _)
StrLess(s, t) ==
    IF t = <<>> THEN FALSE
    ELSE IF s = <<>> THEN TRUE
    ELSE IF Ord(Head(s)) # Ord(Head(t)) THEN Ord(Head(s)) < Ord(Head(t))
    ELSE StrLess(Tail(s), Tail(t))

\* re.compile(pattern): the patterns of the model are literal characters and
\* "(", which opens a group that is never closed (re.error).
Compiles(pattern) == \A i \in 1..Len(pattern) : pattern[i] # "("

\* rx.search(s) for a literal pattern compiled with re.IGNORECASE.
RxSearch(pattern, s) ==
    \E i \in 1..(Len(s) - Len(pattern) + 1) :
        \A j \in 1..Len(pattern) : Lower(s[i + j - 1]) = Lower(pattern[j])

\* ------------------------------------------------------------------ Note
\* created_at is the clock in seconds: isoformat(timespec="seconds") strings
\* have one length and compare as the times do.
Note(id, text, created_at, tags, priority) ==
    [id |-> id, text |-> text, created_at |-> created_at, done |-> FALSE,
     tags |-> tags, priority |-> priority]

\* Note.matches raises re.error
MatchesRaises(pattern) == pattern # <<>> /\ ~Compiles(pattern)

\* Note.matches, where it returns
Matches(n, pattern) ==
    IF pattern = <<>> THEN TRUE
    ELSE \/ RxSearch(pattern, n.text)
         \/ \E i \in 1..Len(n.tags) : RxSearch(pattern, n.tags[i])

\* ------------------------------------------------------------------ files
Inodes == 1..NumInodes
NoFile == 0

\* json.dumps of the list: an opening bracket, one object per note, a closing
\* bracket.  A file is a sequence of such tokens; NUL fills a hole.
Blank == [id |-> "", text |-> <<>>, created_at |-> 0, done |-> FALSE,
          tags |-> <<>>, priority |-> 0]

Bracket(k) == [kind |-> k, note |-> Blank]

Object(n) == [kind |-> "{}", note |-> n]

Serialize(ns) ==
    <<Bracket("[")>> \o [i \in 1..Len(ns) |-> Object(ns[i])] \o <<Bracket("]")>>

\* json.loads followed by Note(**n): the text parses iff it is one complete list
Parses(text) ==
    /\ Len(text) >= 2
    /\ text[1].kind = "["
    /\ text[Len(text)].kind = "]"
    /\ \A i \in 2..(Len(text) - 1) : text[i].kind = "{}"

Parse(text) == [i \in 1..(Len(text) - 2) |-> text[i + 1].note]

InitFS == [canon |-> NoFile, tmp |-> NoFile, data |-> [i \in Inodes |-> <<>>]]

\* the inodes a path names
Linked(F) == {F.canon, F.tmp} \ {NoFile}

\* mutant of OpenTmp: the temporary path is the canonical path
OpenTmpInPlace(F, busy) ==
    IF F.canon # NoFile
    THEN [F EXCEPT !.tmp = F.canon, !.data[F.canon] = <<>>]
    ELSE LET free == Inodes \ (Linked(F) \cup busy)
             i == CHOOSE k \in free : \A m \in free : k <= m
         IN  [F EXCEPT !.tmp = i, !.data[i] = <<>>]

\* open(tmp, "w"): O_CREAT | O_TRUNC.  `busy` are the inodes held open.
OpenTmp(F, busy) ==
    IF F.tmp # NoFile
    THEN [F EXCEPT !.data[F.tmp] = <<>>]
    ELSE LET free == Inodes \ (Linked(F) \cup busy)
             i == CHOOSE k \in free : \A m \in free : k <= m
         IN  [F EXCEPT !.tmp = i, !.data[i] = <<>>]

\* write(2) of one token at offset o of inode i; a hole reads as NUL
WriteAt(F, i, o, tok) ==
    LET old == F.data[i]
        n == IF Len(old) > o + 1 THEN Len(old) ELSE o + 1
    IN  [F EXCEPT !.data[i] =
            [k \in 1..n |-> IF k = o + 1 THEN tok
                            ELSE IF k <= Len(old) THEN old[k] ELSE Bracket("NUL")]]

RECURSIVE WriteAll(_, _, _, _)
WriteAll(F, i, o, text) ==
    IF o >= Len(text) THEN F ELSE WriteAll(WriteAt(F, i, o, text[o + 1]), i, o + 1, text)

\* os.replace(tmp, canon); the caller has checked that tmp exists.  The inode
\* the canonical path named before is freed unless it is held open.
Replace(F, busy) ==
    LET old == F.canon
        G == [F EXCEPT !.canon = F.tmp, !.tmp = NoFile]
    IN  IF old # NoFile /\ old \notin busy /\ old # F.tmp
        THEN [G EXCEPT !.data[old] = <<>>]
        ELSE G

\* load_notes
LoadNotes(F) ==
    IF F.canon = NoFile THEN <<>>
    ELSE IF Parses(F.data[F.canon]) THEN Parse(F.data[F.canon])
    ELSE <<>>

\* save_notes run from start to end by the only process
SaveNotes(F, ns) ==
    LET G == OpenTmp(F, {})
    IN  Replace(WriteAll(G, G.tmp, 0, Serialize(ns)), {})

\* ------------------------------------------------------------------ sorting
\* sorted() is a stable sort: x, the latest element, goes before the first
\* element whose key is greater, after its equals; `greater` are their indices
InsertAt(s, x, greater) ==
    LET p == IF greater = {} THEN Len(s) + 1
             ELSE CHOOSE i \in greater : \A j \in greater : i <= j
    IN  SubSeq(s, 1, p - 1) \o <<x>> \o SubSeq(s, p, Len(s))

\* mutant of SearchKeyLess: the priority is not negated
SearchKeyLessAscending(a, b) ==
    \/ a.priority < b.priority
    \/ a.priority = b.priority /\ a.created_at < b.created_at

\* key=lambda n: (-n.priority, n.created_at)
SearchKeyLess(a, b) ==
    \/ -a.priority < -b.priority
    \/ -a.priority = -b.priority /\ a.created_at < b.created_at

RECURSIVE SortedNotes(_)
SortedNotes(s) ==
    IF s = <<>> THEN <<>>
    ELSE LET t == SortedNotes(SubSeq(s, 1, Len(s) - 1))
             x == s[Len(s)]
         IN  InsertAt(t, x, {i \in 1..Len(t) : SearchKeyLess(x, t[i])})

\* key=lambda kv: (-kv[1], kv[0])
TagKeyLess(a, b) ==
    \/ -a.count < -b.count
    \/ -a.count = -b.count /\ StrLess(a.tag, b.tag)

RECURSIVE SortedTags(_)
SortedTags(s) ==
    IF s = <<>> THEN <<>>
    ELSE LET t == SortedTags(SubSeq(s, 1, Len(s) - 1))
             x == s[Len(s)]
         IN  InsertAt(t, x, {i \in 1..Len(t) : TagKeyLess(x, t[i])})

\* ------------------------------------------------------------------ operations
\* [t.strip() for t in tags if t.strip()]
RECURSIVE NormTags(_)
NormTags(tags) ==
    IF tags = <<>> THEN <<>>
    ELSE IF Strip(Head(tags)) = <<>> THEN NormTags(Tail(tags))
    ELSE <<Strip(Head(tags))>> \o NormTags(Tail(tags))

\* the note add_note builds; id is what _short_uuid returned, t the clock
NewNote(id, text, tags, priority, t) == Note(id, Strip(text), t, NormTags(tags), priority)

\* mutant of AddedNotes: the new note is not appended
AddedNotesNone(ns, n) == ns

\* the list add_note saves
AddedNotes(ns, n) == Append(ns, n)

\* the index of the note mark_done changes, 0 if the loop ends without a hit
FirstHit(ns, id) ==
    LET hits == {i \in 1..Len(ns) : ns[i].id = id}
    IN  IF hits = {} THEN 0 ELSE CHOOSE i \in hits : \A j \in hits : i <= j

\* mutants of MarkedNotes: done is flipped; every note with the id is marked
MarkedNotesFlip(ns, i) == [ns EXCEPT ![i].done = ~@]

MarkedNotesAll(ns, i) ==
    [k \in 1..Len(ns) |-> IF ns[k].id = ns[i].id THEN [ns[k] EXCEPT !.done = TRUE] ELSE ns[k]]

\* the list mark_done saves when the loop hit index i
MarkedNotes(ns, i) == [ns EXCEPT ![i].done = TRUE]

\* mutant of KeptNotes: the filter is inverted
KeptNotesDone(ns) == SelectSeq(ns, LAMBDA n : n.done)

\* the list clear_done saves
KeptNotes(ns) == SelectSeq(ns, LAMBDA n : ~n.done)

\* the list comprehension of search_notes, where matches does not raise
Filtered(ns, pattern, include_done) ==
    SelectSeq(ns, LAMBDA n : Matches(n, pattern) /\ (include_done \/ ~n.done))

\* search_notes raises: matches is called for the first note of the list
SearchRaises(ns, pattern) == ns # <<>> /\ MatchesRaises(pattern)

SearchResult(ns, pattern, include_done) == SortedNotes(Filtered(ns, pattern, include_done))

\* stats: by_tag in first-seen order, then sorted
RECURSIVE AllTags(_)
AllTags(ns) == IF ns = <<>> THEN <<>> ELSE Head(ns).tags \o AllTags(Tail(ns))

CountTag(m, t) ==
    IF \E i \in 1..Len(m) : m[i].tag = t
    THEN [i \in 1..Len(m) |-> IF m[i].tag = t THEN [m[i] EXCEPT !.count = @ + 1] ELSE m[i]]
    ELSE Append(m, [tag |-> t, count |-> 1])

RECURSIVE ByTag(_)
ByTag(ts) ==
    IF ts = <<>> THEN <<>>
    ELSE CountTag(ByTag(SubSeq(ts, 1, Len(ts) - 1)), ts[Len(ts)])

MaxPriority(ns) ==
    IF ns = <<>> THEN 0
    ELSE LET ps == {ns[i].priority : i \in 1..Len(ns)}
         IN  CHOOSE p \in ps : \A q \in ps : q <= p

StatsResult(ns) ==
    LET total == Len(ns)
        done == Len(SelectSeq(ns, LAMBDA n : n.done))
    IN  [total |-> total, pending |-> total - done, done |-> done,
         highest_priority |-> MaxPriority(ns), tags |-> SortedTags(ByTag(AllTags(ns)))]

\* ------------------------------------------------------------------ calls
Procs == {1, 2}

\* a call: the operation, its arguments, and what it returned or raised
NoCall ==
    [op |-> "none", text |-> <<>>, tags |-> <<>>, priority |-> 0, id |-> "",
     pattern |-> <<>>, include_done |-> FALSE, again |-> FALSE,
     err |-> "none", ok |-> FALSE, count |-> 0, out |-> <<>>,
     st |-> StatsResult(<<>>)]

SameCall(c, d) ==
    /\ c.op = d.op /\ c.text = d.text /\ c.tags = d.tags /\ c.priority = d.priority
    /\ c.id = d.id /\ c.pattern = d.pattern /\ c.include_done = d.include_done

\* the call c, marked as a repetition of the call before it or not
After(prev, c) == [c EXCEPT !.again = SameCall(prev, c)]

\* what the callers pass, and what _short_uuid and the clock may give
Mutating ==
    [ids |-> {"i1", "i2"}, texts |-> {<<" ", "a">>}, tags |-> {<<>>},
     prios |-> {0, 4}, ticks |-> {0, 1}, patterns |-> {<<"A">>}]

Querying ==
    [ids |-> {"i1"}, texts |-> {<<"a", " ">>, <<"B">>},
     tags |-> {<< <<" ">>, <<"b", " ">> >>},
     prios |-> {0, 3}, ticks |-> {0, 1},
     patterns |-> {<<>>, <<"A">>, <<"b">>, <<"(">>}]

Idle ==
    /\ pc = [p \in Procs |-> "idle"]
    /\ notes = [p \in Procs |-> <<>>]
    /\ fd = [p \in Procs |-> NoFile]
    /\ off = [p \in Procs |-> 0]
    /\ call = [p \in Procs |-> NoCall]
    /\ loaded = [p \in Procs |-> <<>>]
    /\ reader = [pc |-> "idle", fd |-> NoFile, out |-> <<>>, at |-> <<>>]

Init ==
    /\ fs = InitFS
    /\ now = 0
    /\ last = NoCall
    /\ before = <<>>
    /\ Idle

procvars == <<pc, notes, fd, off, call, loaded, reader>>

\* add_note
AddNote(I) ==
    \E id \in I.ids, text \in I.texts, tags \in I.tags, priority \in I.prios, d \in I.ticks :
        LET ns == LoadNotes(fs)
            note == NewNote(id, text, tags, priority, now + d)
        IN  /\ Len(ns) < MaxNotes
            /\ now + d <= MaxTime
            /\ now' = now + d
            /\ fs' = SaveNotes(fs, AddedNotes(ns, note))
            /\ before' = ns
            /\ last' = After(last, [NoCall EXCEPT !.op = "add_note", !.text = text,
                                       !.tags = tags, !.priority = priority,
                                       !.out = <<note>>])
            /\ UNCHANGED procvars

\* mark_done
MarkDone(I) ==
    \E id \in I.ids :
        LET ns == LoadNotes(fs)
            hit == FirstHit(ns, id)
        IN  /\ fs' = IF hit # 0 THEN SaveNotes(fs, MarkedNotes(ns, hit)) ELSE fs
            /\ before' = ns
            /\ last' = After(last, [NoCall EXCEPT !.op = "mark_done", !.id = id,
                                       !.ok = (hit # 0)])
            /\ UNCHANGED <<now, procvars>>

\* clear_done
ClearDone ==
    LET ns == LoadNotes(fs)
        kept == KeptNotes(ns)
    IN  /\ fs' = SaveNotes(fs, kept)
        /\ before' = ns
        /\ last' = After(last, [NoCall EXCEPT !.op = "clear_done",
                                   !.count = Len(ns) - Len(kept)])
        /\ UNCHANGED <<now, procvars>>

\* search_notes
SearchNotes(I) ==
    \E pattern \in I.patterns, include_done \in BOOLEAN :
        LET ns == LoadNotes(fs)
            c == [NoCall EXCEPT !.op = "search_notes", !.pattern = pattern,
                                !.include_done = include_done]
        IN  /\ before' = ns
            /\ last' = After(last,
                   IF SearchRaises(ns, pattern) THEN [c EXCEPT !.err = "re.error"]
                   ELSE [c EXCEPT !.out = SearchResult(ns, pattern, include_done)])
            /\ UNCHANGED <<fs, now, procvars>>

\* stats
Stats ==
    LET ns == LoadNotes(fs)
    IN  /\ before' = ns
        /\ last' = After(last, [NoCall EXCEPT !.op = "stats", !.st = StatsResult(ns)])
        /\ UNCHANGED <<fs, now, procvars>>

\* the operations run one after another, each to its end
Next ==
    \/ AddNote(Mutating)
    \/ MarkDone(Mutating)
    \/ ClearDone
    \/ SearchNotes(Mutating)
    \/ Stats

Spec == Init /\ [][Next]_vars

NextQuery ==
    \/ AddNote(Querying)
    \/ MarkDone(Querying)
    \/ ClearDone
    \/ SearchNotes(Querying)
    \/ Stats

SpecQuery == Init /\ [][NextQuery]_vars

\* ------------------------------------------------------------------ processes
\* The same operations, one system call at a time, each invocation of the
\* tool a process of its own.
Stepping ==
    [ids |-> {"i1"}, texts |-> {<<"a">>}, tags |-> {<<>>},
     prios |-> {0}, ticks |-> {0}]

Racing ==
    [ids |-> {"i1", "i2"}, texts |-> {<<"a">>}, tags |-> {<<>>},
     prios |-> {0}, ticks |-> {0}]

\* the inodes some process holds open
Busy(fds, rd) == ({fds[p] : p \in Procs} \cup {rd.fd}) \ {NoFile}

\* close(fd): an inode no path names and no process holds is gone
Close(F, i, busy) ==
    IF i # NoFile /\ i \notin (Linked(F) \cup busy)
    THEN [F EXCEPT !.data[i] = <<>>]
    ELSE F

\* add_note up to the call of save_notes
PAdd(p, I) ==
    \E id \in I.ids, text \in I.texts, tags \in I.tags, priority \in I.prios, d \in I.ticks :
        LET ns == LoadNotes(fs)
            note == NewNote(id, text, tags, priority, now + d)
        IN  /\ pc[p] = "idle"
            /\ Len(ns) < MaxNotes
            /\ now + d <= MaxTime
            /\ now' = now + d
            /\ loaded' = [loaded EXCEPT ![p] = ns]
            /\ notes' = [notes EXCEPT ![p] = AddedNotes(ns, note)]
            /\ call' = [call EXCEPT ![p] =
                   [NoCall EXCEPT !.op = "add_note", !.text = text, !.tags = tags,
                                  !.priority = priority, !.out = <<note>>]]
            /\ pc' = [pc EXCEPT ![p] = "open"]
            /\ UNCHANGED <<fs, last, before, fd, off, reader>>

\* mark_done up to the call of save_notes, or to its end without a hit
PMarkDone(p, I) ==
    \E id \in I.ids :
        LET ns == LoadNotes(fs)
            hit == FirstHit(ns, id)
        IN  /\ pc[p] = "idle"
            /\ loaded' = [loaded EXCEPT ![p] = ns]
            /\ notes' = [notes EXCEPT ![p] = IF hit # 0 THEN MarkedNotes(ns, hit) ELSE ns]
            /\ call' = [call EXCEPT ![p] =
                   [NoCall EXCEPT !.op = "mark_done", !.id = id, !.ok = (hit # 0)]]
            /\ pc' = [pc EXCEPT ![p] = IF hit # 0 THEN "open" ELSE "done"]
            /\ UNCHANGED <<fs, now, last, before, fd, off, reader>>

\* clear_done up to the call of save_notes
PClearDone(p) ==
    LET ns == LoadNotes(fs)
        kept == KeptNotes(ns)
    IN  /\ pc[p] = "idle"
        /\ loaded' = [loaded EXCEPT ![p] = ns]
        /\ notes' = [notes EXCEPT ![p] = kept]
        /\ call' = [call EXCEPT ![p] =
               [NoCall EXCEPT !.op = "clear_done", !.count = Len(ns) - Len(kept)]]
        /\ pc' = [pc EXCEPT ![p] = "open"]
        /\ UNCHANGED <<fs, now, last, before, fd, off, reader>>

\* save_notes: write_text opens the temporary path
POpen(p) ==
    /\ pc[p] = "open"
    /\ fs' = OpenTmp(fs, Busy(fd, reader))
    /\ fd' = [fd EXCEPT ![p] = fs'.tmp]
    /\ off' = [off EXCEPT ![p] = 0]
    /\ pc' = [pc EXCEPT ![p] = "write"]
    /\ UNCHANGED <<now, last, before, notes, call, loaded, reader>>

\* save_notes: write_text writes the next token, and closes after the last
PWrite(p) ==
    LET text == Serialize(notes[p])
        F == WriteAt(fs, fd[p], off[p], text[off[p] + 1])
        end == off[p] + 1 = Len(text)
    IN  /\ pc[p] = "write"
        /\ fd' = [fd EXCEPT ![p] = IF end THEN NoFile ELSE @]
        /\ off' = [off EXCEPT ![p] = IF end THEN 0 ELSE @ + 1]
        /\ fs' = IF end THEN Close(F, fd[p], Busy(fd', reader)) ELSE F
        /\ pc' = [pc EXCEPT ![p] = IF end THEN "replace" ELSE "write"]
            /\ UNCHANGED <<now, last, before, notes, call, loaded, reader>>

\* save_notes: tmp.replace(NOTES_FILE); FileNotFoundError if tmp is gone
PReplace(p) ==
    /\ pc[p] = "replace"
    /\ fs' = IF fs.tmp = NoFile THEN fs ELSE Replace(fs, Busy(fd, reader))
    /\ call' = [call EXCEPT ![p].err =
           IF fs.tmp = NoFile THEN "FileNotFoundError" ELSE "none"]
    /\ pc' = [pc EXCEPT ![p] = "done"]
    /\ UNCHANGED <<now, last, before, notes, fd, off, loaded, reader>>

\* the call is interrupted, or its write or rename fails: the process ends
\* where it stands and leaves the files as they are
PAbort(p) ==
    /\ pc[p] \in {"open", "write", "replace"}
    /\ fd' = [fd EXCEPT ![p] = NoFile]
    /\ off' = [off EXCEPT ![p] = 0]
    /\ fs' = Close(fs, fd[p], Busy(fd', reader))
    /\ call' = [call EXCEPT ![p].err = "aborted"]
    /\ pc' = [pc EXCEPT ![p] = "done"]
    /\ UNCHANGED <<now, last, before, notes, loaded, reader>>

\* the process exits
PExit(p) ==
    /\ pc[p] = "done"
    /\ pc' = [pc EXCEPT ![p] = "idle"]
    /\ notes' = [notes EXCEPT ![p] = <<>>]
    /\ call' = [call EXCEPT ![p] = NoCall]
    /\ loaded' = [loaded EXCEPT ![p] = <<>>]
    /\ UNCHANGED <<fs, now, last, before, fd, off, reader>>

\* load_notes run by a reader: exists(), then read_text opens, reads and
\* closes.  `at` is the collection the canonical path named when it was opened.
RExists ==
    /\ reader.pc = "idle"
    /\ reader' = [reader EXCEPT !.pc = IF fs.canon = NoFile THEN "done" ELSE "open"]
    /\ UNCHANGED <<fs, now, last, before, pc, notes, fd, off, call, loaded>>

ROpen ==
    /\ reader.pc = "open"
    /\ reader' = [reader EXCEPT !.pc = "read", !.fd = fs.canon, !.at = LoadNotes(fs)]
    /\ UNCHANGED <<fs, now, last, before, pc, notes, fd, off, call, loaded>>

RRead ==
    LET text == fs.data[reader.fd]
    IN  /\ reader.pc = "read"
        /\ reader' = [reader EXCEPT !.pc = "done", !.fd = NoFile,
                          !.out = IF Parses(text) THEN Parse(text) ELSE <<>>]
        /\ fs' = Close(fs, reader.fd, Busy(fd, reader'))
        /\ UNCHANGED <<now, last, before, pc, notes, fd, off, call, loaded>>

RExit ==
    /\ reader.pc = "done"
    /\ reader' = [pc |-> "idle", fd |-> NoFile, out |-> <<>>, at |-> <<>>]
    /\ UNCHANGED <<fs, now, last, before, pc, notes, fd, off, call, loaded>>

\* one writer that may be interrupted, and a reader
NextCrash ==
    \/ PAdd(1, Stepping)
    \/ PMarkDone(1, Stepping)
    \/ PClearDone(1)
    \/ POpen(1)
    \/ PWrite(1)
    \/ PReplace(1)
    \/ PAbort(1)
    \/ PExit(1)
    \/ RExists
    \/ ROpen
    \/ RRead
    \/ RExit

SpecCrash == Init /\ [][NextCrash]_vars

\* two invocations of the tool at once
NextRace ==
    \E p \in Procs :
        \/ PAdd(p, Racing)
        \/ POpen(p)
        \/ PWrite(p)
        \/ PReplace(p)
        \/ PExit(p)

SpecRace == Init /\ [][NextRace]_vars

\* ------------------------------------------------------------------ claims
Persisted == LoadNotes(fs)

DoneCount(ns) == Cardinality({i \in 1..Len(ns) : ns[i].done})

\* C2: add_note with a priority outside 0..3 fails and leaves the persisted
\* collection unchanged, so every persisted note has a priority in 0..3.
PriorityValidated ==
    /\ (last.op = "add_note" /\ last.priority \notin 0..3)
          => (last.err # "none" /\ Persisted = before)
    /\ \A i \in 1..Len(Persisted) : Persisted[i].priority \in 0..3

\* C3: search_notes with a non-empty pattern that is no valid regular
\* expression fails, whatever the store holds.
InvalidPatternRaises ==
    (last.op = "search_notes" /\ last.pattern # <<>> /\ ~Compiles(last.pattern))
        => last.err # "none"

\* C4: no two notes of the persisted collection have the same id.
IdsUnique ==
    \A i, j \in 1..Len(Persisted) : i # j => Persisted[i].id # Persisted[j].id

\* C5: mark_done(id) for an id in the collection returns true, raises nothing
\* and leaves the first note with that id done; called a second time in a row
\* it returns true again and leaves the persisted collection as the first
\* call left it.
MarkDoneIdempotent ==
    (last.op = "mark_done" /\ FirstHit(before, last.id) # 0)
        => /\ last.ok
           /\ last.err = "none"
           /\ Len(Persisted) = Len(before)
           /\ Persisted[FirstHit(before, last.id)].done
           /\ last.again => Persisted = before

MarkDoneTwice == last.op = "mark_done" /\ last.again /\ last.ok /\ Len(before) >= 2

\* C6: clear_done returns the number of notes that were done, and leaves
\* exactly the notes that were not done, unchanged and in their order.
ClearDoneExact ==
    last.op = "clear_done"
        => /\ last.count = DoneCount(before)
           /\ Len(Persisted) = Len(before) - DoneCount(before)
           /\ \A i \in 1..Len(before) :
                  ~before[i].done =>
                      Persisted[i - DoneCount(SubSeq(before, 1, i))] = before[i]
           /\ DoneCount(Persisted) = 0

ClearDoneRemoved == last.op = "clear_done" /\ last.count >= 1 /\ Persisted # <<>>

SameKey(a, b) == a.priority = b.priority /\ a.created_at = b.created_at

Wanted(n) == Matches(n, last.pattern) /\ (last.include_done \/ ~n.done)

\* C7: search_notes returns the matching notes (without the done ones unless
\* include_done), by descending priority, then ascending created_at, notes
\* with equal keys in the order of the loaded collection; the store is unchanged.
SearchOrdered ==
    (last.op = "search_notes" /\ last.err = "none")
        => LET out == last.out
               want == SelectSeq(before, Wanted)
           IN  /\ \A i, j \in 1..Len(out) :
                      i < j => \/ out[i].priority > out[j].priority
                               \/ /\ out[i].priority = out[j].priority
                                  /\ out[i].created_at <= out[j].created_at
               /\ Len(out) = Len(want)
               /\ \A k \in 1..Len(want) :
                      SelectSeq(out, LAMBDA n : SameKey(n, want[k]))
                          = SelectSeq(want, LAMBDA n : SameKey(n, want[k]))
               /\ Persisted = before

SearchReordered ==
    /\ last.op = "search_notes" /\ last.err = "none" /\ ~last.include_done
    /\ Len(last.out) = 2 /\ Len(before) = 2
    /\ last.out[1] = before[2]
    /\ last.out[1].priority > last.out[2].priority
    /\ last.out[1].created_at > last.out[2].created_at

SameButDone(a, b) == [a EXCEPT !.done = b.done] = b

\* C10: a persisted note is removed only by clear_done while it is done; until
\* then only its done field changes, and only from false to true.  add_note
\* appends one note, mark_done sets done on the first note with the id, and
\* mark_done of an unknown id returns false and changes nothing.
FrameKept ==
    /\ last.op # "clear_done" =>
          /\ Len(Persisted) >= Len(before)
          /\ \A i \in 1..Len(before) :
                 /\ SameButDone(before[i], Persisted[i])
                 /\ before[i].done => Persisted[i].done
    /\ last.op = "clear_done" =>
          \E keep \in SUBSET (1..Len(before)) :
              /\ \A i \in (1..Len(before)) \ keep : before[i].done
              /\ Len(Persisted) = Cardinality(keep)
              /\ \A i \in keep :
                     Persisted[Cardinality({k \in keep : k <= i})] = before[i]
    /\ last.op = "add_note" =>
          /\ Len(Persisted) = Len(before) + 1
          /\ Persisted[Len(Persisted)] = last.out[1]
    /\ last.op = "mark_done" =>
          LET hits == {i \in 1..Len(before) : before[i].id = last.id}
          IN  /\ last.ok = (hits # {})
              /\ hits = {} => Persisted = before
              /\ Len(Persisted) = Len(before)
              /\ \A i \in hits :
                     (\E j \in hits : j < i) => Persisted[i] = before[i]
              /\ \A i \in (1..Len(before)) \ hits : Persisted[i] = before[i]
    /\ last.op \in {"search_notes", "stats"} => Persisted = before

MarkDoneOfDuplicate ==
    /\ last.op = "mark_done" /\ last.ok
    /\ Len(before) = 2 /\ before[1].id = before[2].id
    /\ ~before[2].done /\ ~Persisted[2].done

\* the canonical file holds the complete collection ns
CanonHolds(ns) ==
    \/ fs.canon = NoFile /\ ns = <<>>
    \/ fs.canon # NoFile /\ fs.data[fs.canon] = Serialize(ns)

\* C1: with one writer, the canonical file holds the complete collection of
\* before the save until the replace and the complete new collection after
\* it, also when the save is interrupted; a failure before the replace leaves
\* the file as it was; a reader gets the collection the file held when it
\* opened it.
AtomicSave ==
    /\ pc[1] \in {"open", "write", "replace"} => CanonHolds(loaded[1])
    /\ (pc[1] = "done" /\ call[1].err = "aborted") => CanonHolds(loaded[1])
    /\ (pc[1] = "done" /\ call[1].err = "none") => CanonHolds(notes[1])
    /\ reader.pc = "read" => Parses(fs.data[reader.fd])
    /\ reader.pc = "done" => reader.out = reader.at

AbortedBeforeReplace ==
    /\ pc[1] = "done" /\ call[1].err = "aborted"
    /\ fs.canon # NoFile /\ fs.tmp # NoFile
    /\ fs.data[fs.tmp] = Serialize(notes[1])
    /\ notes[1] # loaded[1]
    /\ reader.pc = "done" /\ reader.out = loaded[1] /\ reader.out # <<>>

\* C8: two add_note calls that both loaded the same collection and both
\* returned: the persisted collection is the one the last save wrote, and
\* holds one new note, not two.
LastSaveWins ==
    \A p, q \in Procs :
        (/\ p # q
         /\ pc[p] = "done" /\ pc[q] = "done"
         /\ call[p].op = "add_note" /\ call[q].op = "add_note"
         /\ call[p].err = "none" /\ call[q].err = "none"
         /\ loaded[p] = loaded[q])
            => /\ Persisted \in {notes[p], notes[q]}
               /\ Len(Persisted) = Len(loaded[p]) + 1

UpdateLost ==
    /\ pc[1] = "done" /\ pc[2] = "done"
    /\ call[1].op = "add_note" /\ call[2].op = "add_note"
    /\ call[1].err = "none" /\ call[2].err = "none"
    /\ loaded[1] = loaded[2]
    /\ call[1].out[1].id # call[2].out[1].id
    /\ Persisted = notes[2]
    /\ \A i \in 1..Len(Persisted) : Persisted[i] # call[1].out[1]

\* C9: with two processes in save_notes, the canonical file is always a
\* complete serialized collection and no save_notes call raises.
NoPartialFile ==
    /\ fs.canon = NoFile \/ Parses(fs.data[fs.canon])
    /\ \A p \in Procs : call[p].err = "none"

====
